---- MODULE Spec2Model ----
(***************************************************************************)
(* Model of src/app.py, the "Ego" Streamlit application.                   *)
(*                                                                         *)
(* A Streamlit session is a state machine: every user event (a widget      *)
(* change or a button click) reruns the whole script, top to bottom,       *)
(* against st.session_state and the values of the widgets.  One action of  *)
(* this model is one such event followed by the complete rerun.            *)
(*                                                                         *)
(* Text is modelled as a sequence of pieces.  Where the code indexes or    *)
(* embeds a string (the MBTI labels, the chat question) the pieces are     *)
(* single characters; a literal that the code only passes along is one     *)
(* piece.                                                                  *)
(***************************************************************************)
EXTENDS Integers, Sequences, FiniteSets, TLC

VARIABLES
    session_state,  \* st.session_state: a mapping from key to value
    widgets,        \* the value of every widget, as the front end holds it
    screen,         \* what the last run rendered
    init_calls,     \* how many times initialize_vector_db has been called
    submitted,      \* history: the five scores of the last Big Five Save
    replaced        \* history: the kinds whose result the last run replaced

vars == <<session_state, widgets, screen, init_calls, submitted, replaced>>

(***************************************************************************)
(* Bounds of the model.                                                    *)
(***************************************************************************)
\* Slider positions the user reaches besides the default: the top ones.
NumExtraScores == 1
\* Longest question the user types.
MaxQueryLen == 2

(***************************************************************************)
(* Program constants.                                                      *)
(***************************************************************************)
SliderMin == 1
SliderMax == 100
SliderDefault == 50
TypeMin == 1
TypeMax == 9
ProgressFull == 100
ProgressEmpty == 0

PAGES == <<"Home", "Personality Assessment", "Chat with Past Self", "Analytics">>

ASSESSMENT_TYPES ==
    <<"Big Five (OCEAN)", "Myers-Briggs Type Indicator (MBTI)", "Enneagram">>

TRAITS ==
    <<"openness", "conscientiousness", "extraversion", "agreeableness",
      "neuroticism">>

\* The radio labels of the MBTI form, character by character.
EI_OPTIONS ==
    << <<"E","x","t","r","a","v","e","r","s","i","o","n"," ","(","E",")">>,
       <<"I","n","t","r","o","v","e","r","s","i","o","n"," ","(","I",")">> >>

SN_OPTIONS ==
    << <<"S","e","n","s","i","n","g"," ","(","S",")">>,
       <<"I","n","t","u","i","t","i","o","n"," ","(","N",")">> >>

TF_OPTIONS ==
    << <<"T","h","i","n","k","i","n","g"," ","(","T",")">>,
       <<"F","e","e","l","i","n","g"," ","(","F",")">> >>

JP_OPTIONS ==
    << <<"J","u","d","g","i","n","g"," ","(","J",")">>,
       <<"P","e","r","c","e","i","v","i","n","g"," ","(","P",")">> >>

AXES == <<"ei", "sn", "tf", "jp">>

AxisOptions(axis) ==
    CASE axis = "ei" -> EI_OPTIONS
      [] axis = "sn" -> SN_OPTIONS
      [] axis = "tf" -> TF_OPTIONS
      [] axis = "jp" -> JP_OPTIONS

INSTINCTS ==
    <<"Self-Preservation (sp)", "Social (so)", "One-to-One/Sexual (sx)">>

WARN_CHAT ==
    "Please complete at least one personality assessment before chatting."

WARN_ANALYTICS ==
    "Please complete at least one personality assessment to view analytics."

RESPONSE_HEAD ==
    "Based on your personality data, your past self might say: I would need to think about '"

RESPONSE_TAIL == "' carefully before responding."

Range(s) == {s[i] : i \in 1..Len(s)}

\* str() of a primary type or wing inside an f-string.
DigitStr(n) ==
    CASE n = 0 -> "0" [] n = 1 -> "1" [] n = 2 -> "2" [] n = 3 -> "3"
      [] n = 4 -> "4" [] n = 5 -> "5" [] n = 6 -> "6" [] n = 7 -> "7"
      [] n = 8 -> "8" [] n = 9 -> "9" [] n = 10 -> "10"

(***************************************************************************)
(* A Python dict as its set of items.                                      *)
(***************************************************************************)
DictKeys(d) == {e.key : e \in d}

DictGet(d, k) == (CHOOSE e \in d : e.key = k).value

\* d[k] = v written so that earlier items of k are kept: a faulty variant of DictSet.
DictSetKeeping(d, k, v) == d \cup {[key |-> k, value |-> v]}

\* d[k] = v
DictSet(d, k, v) == {e \in d : e.key # k} \cup {[key |-> k, value |-> v]}

(***************************************************************************)
(* Widgets.                                                                *)
(***************************************************************************)
\* The value each widget returns the first time it is rendered.
DefaultWidgets ==
    [page |-> PAGES[1],
     assessment_type |-> ASSESSMENT_TYPES[1],
     openness |-> SliderDefault,
     conscientiousness |-> SliderDefault,
     extraversion |-> SliderDefault,
     agreeableness |-> SliderDefault,
     neuroticism |-> SliderDefault,
     ei |-> EI_OPTIONS[1],
     sn |-> SN_OPTIONS[1],
     tf |-> TF_OPTIONS[1],
     jp |-> JP_OPTIONS[1],
     primary_type |-> TypeMin,
     wing_options |-> <<>>,
     wing_index |-> 1,
     instinct |-> INSTINCTS[1],
     user_query |-> <<>>]

NoClick == "none"

\* What a run has rendered before any page function ran.
BlankScreen ==
    [rendered |-> {"page"},
     markdown |-> "",
     warning |-> "",
     success |-> "",
     mbti_type |-> <<>>,
     response |-> <<>>,
     bar_chart |-> <<>>,
     mbti_view |-> <<>>,
     enneagram_view |-> <<>>]

(***************************************************************************)
(* The script, function by function.  A page function takes the profile   *)
(* (st.session_state.personality_data), the widget values and the button   *)
(* whose click started the run, and returns the profile it leaves and      *)
(* what it rendered.                                                       *)
(***************************************************************************)
\* Lines 17-20 without the test of line 17, so that every run resets the
\* session: a faulty variant of SessionInit.
SessionInitAlways(ss) ==
    [initialized |-> FALSE, personality_data |-> {}, vector_store |-> <<>>]

\* Lines 17-20: the keys are created when "initialized" is not yet one.
SessionInit(ss) ==
    IF "initialized" \notin DOMAIN ss
    THEN [initialized |-> FALSE, personality_data |-> {}, vector_store |-> <<>>]
    ELSE ss

\* The handle the n-th call constructs.
initialize_vector_db(n) ==
    [collection_name |-> "ego_personality",
     model_name |-> "all-MiniLM-L6-v2",
     persist_directory |-> "./chroma_db",
     instance |-> n]

home_page(pd, w, clicked) ==
    [pd |-> pd, screen |-> [BlankScreen EXCEPT !.markdown = "home"]]

\* The record the Save button of the Big Five form stores.
BigFiveRecord(w) ==
    [openness |-> w.openness,
     conscientiousness |-> w.conscientiousness,
     extraversion |-> w.extraversion,
     agreeableness |-> w.agreeableness,
     neuroticism |-> w.neuroticism]

big_five_assessment(pd, w, clicked) ==
    LET shown == [BlankScreen EXCEPT
                    !.markdown = "big_five",
                    !.rendered = @ \cup Range(TRAITS) \cup {"save_big_five"}]
    IN  IF clicked = "save_big_five"
        THEN [pd |-> DictSet(pd, "big_five", BigFiveRecord(w)),
              screen |-> [shown EXCEPT
                            !.success = "Big Five assessment saved successfully!"]]
        ELSE [pd |-> pd, screen |-> shown]

\* label[0]
FirstChar(label) == label[1]

\* f"{ei[0]}{sn[0]}{tf[0]}{jp[0]}"
MbtiType(w) ==
    <<FirstChar(w.ei), FirstChar(w.sn), FirstChar(w.tf), FirstChar(w.jp)>>

\* The record the Save button of the MBTI form stores.
MbtiRecord(w) ==
    [type |-> MbtiType(w),
     ei |-> FirstChar(w.ei),
     sn |-> FirstChar(w.sn),
     tf |-> FirstChar(w.tf),
     jp |-> FirstChar(w.jp)]

\* The MBTI form storing its record on every run, the dict assignment outside
\* the test of the button: a faulty variant of mbti_assessment.
mbti_assessment_autosave(pd, w, clicked) ==
    LET shown == [BlankScreen EXCEPT
                    !.markdown = "mbti",
                    !.rendered = @ \cup Range(AXES) \cup {"save_mbti"},
                    !.mbti_type = MbtiType(w)]
    IN  [pd |-> DictSet(pd, "mbti", MbtiRecord(w)),
         screen |-> IF clicked = "save_mbti"
                    THEN [shown EXCEPT
                            !.success = "MBTI assessment saved successfully!"]
                    ELSE shown]

mbti_assessment(pd, w, clicked) ==
    LET shown == [BlankScreen EXCEPT
                    !.markdown = "mbti",
                    !.rendered = @ \cup Range(AXES) \cup {"save_mbti"},
                    !.mbti_type = MbtiType(w)]
    IN  IF clicked = "save_mbti"
        THEN [pd |-> DictSet(pd, "mbti", MbtiRecord(w)),
              screen |-> [shown EXCEPT
                            !.success = "MBTI assessment saved successfully!"]]
        ELSE [pd |-> pd, screen |-> shown]

\* Line 196 without the filter of line 197: a faulty variant of WingOptions.
WingOptionsUnfiltered(primary_type) == <<primary_type - 1, primary_type + 1>>

\* Lines 196-197: the neighbours of the primary type that are types.
WingOptions(primary_type) ==
    SelectSeq(<<primary_type - 1, primary_type + 1>>,
              LAMBDA x : TypeMin <= x /\ x <= TypeMax)

\* The index st.selectbox("Wing", options) holds: the one the user chose
\* while the widget has these options, the first one for a new option list.
WingIndex(w, options) ==
    IF w.wing_options = options THEN w.wing_index ELSE 1

\* The selected index applied to the list before its filter (line 196
\* instead of line 197): a faulty variant of Wing.
WingFromUnfiltered(w) ==
    WingOptionsUnfiltered(w.primary_type)[WingIndex(w, WingOptions(w.primary_type))]

\* The value st.selectbox("Wing", wing_options) returns.
Wing(w) ==
    LET options == WingOptions(w.primary_type)
    IN  options[WingIndex(w, options)]

\* The record the Save button of the Enneagram form stores.
EnneagramRecord(w) ==
    [primary_type |-> w.primary_type,
     wing |-> Wing(w),
     instinct |-> w.instinct]

enneagram_assessment(pd, w, clicked) ==
    LET shown == [BlankScreen EXCEPT
                    !.markdown = "enneagram",
                    !.rendered = @ \cup {"primary_type", "wing", "instinct",
                                         "save_enneagram"}]
    IN  IF clicked = "save_enneagram"
        THEN [pd |-> DictSet(pd, "enneagram", EnneagramRecord(w)),
              screen |-> [shown EXCEPT
                            !.success = "Enneagram assessment saved successfully!"]]
        ELSE [pd |-> pd, screen |-> shown]

assessment_page(pd, w, clicked) ==
    LET r == CASE w.assessment_type = ASSESSMENT_TYPES[1] ->
                    big_five_assessment(pd, w, clicked)
               [] w.assessment_type = ASSESSMENT_TYPES[2] ->
                    mbti_assessment(pd, w, clicked)
               [] w.assessment_type = ASSESSMENT_TYPES[3] ->
                    enneagram_assessment(pd, w, clicked)
    IN  [pd |-> r.pd,
         screen |-> [r.screen EXCEPT !.rendered = @ \cup {"assessment_type"}]]

\* The placeholder answer made to also quote the stored MBTI type: a faulty variant
\* of ChatResponse.
ChatResponseWithProfile(pd, user_query) ==
    <<RESPONSE_HEAD>> \o user_query \o <<RESPONSE_TAIL>> \o
        (IF "mbti" \in DictKeys(pd) THEN DictGet(pd, "mbti").type ELSE <<>>)

\* Lines 243-246: the f-string of the placeholder answer.
ChatResponse(pd, user_query) ==
    <<RESPONSE_HEAD>> \o user_query \o <<RESPONSE_TAIL>>

\* chat_page without lines 224-228: a faulty variant of chat_page.
chat_page_ungated(pd, w, clicked) ==
    LET input == [BlankScreen EXCEPT
                    !.markdown = "chat",
                    !.rendered = @ \cup {"user_query"}]
    IN  [pd |-> pd, screen |-> input]

chat_page(pd, w, clicked) ==
    IF pd = {}
    THEN [pd |-> pd, screen |-> [BlankScreen EXCEPT !.warning = WARN_CHAT]]
    ELSE LET input == [BlankScreen EXCEPT
                         !.markdown = "chat",
                         !.rendered = @ \cup {"user_query"}]
             \* user_query and st.button("Ask"): no button for an empty question
             button == IF w.user_query # <<>>
                       THEN [input EXCEPT !.rendered = @ \cup {"ask"}]
                       ELSE input
         IN  IF w.user_query # <<>> /\ clicked = "ask"
             THEN [pd |-> pd,
                   screen |-> [button EXCEPT
                                 !.response = ChatResponse(pd, w.user_query)]]
             ELSE [pd |-> pd, screen |-> button]

\* The bar chart with two of its bars exchanged: a faulty variant of BarChart.
BarChartSwapped(big_five) ==
    << [label |-> "Openness", value |-> big_five.conscientiousness],
       [label |-> "Conscientiousness", value |-> big_five.openness],
       [label |-> "Extraversion", value |-> big_five.extraversion],
       [label |-> "Agreeableness", value |-> big_five.agreeableness],
       [label |-> "Neuroticism", value |-> big_five.neuroticism] >>

\* Lines 272-278: the dict handed to st.bar_chart, in insertion order.
BarChart(big_five) ==
    << [label |-> "Openness", value |-> big_five.openness],
       [label |-> "Conscientiousness", value |-> big_five.conscientiousness],
       [label |-> "Extraversion", value |-> big_five.extraversion],
       [label |-> "Agreeableness", value |-> big_five.agreeableness],
       [label |-> "Neuroticism", value |-> big_five.neuroticism] >>

\* Lines 284-304: the type, then per axis the progress bar and the letter.
MbtiView(mbti) ==
    [type |-> mbti.type,
     progress |->
        <<IF mbti.ei = "E" THEN ProgressFull ELSE ProgressEmpty,
          IF mbti.sn = "S" THEN ProgressFull ELSE ProgressEmpty,
          IF mbti.tf = "T" THEN ProgressFull ELSE ProgressEmpty,
          IF mbti.jp = "J" THEN ProgressFull ELSE ProgressEmpty>>,
     letters |->
        <<IF mbti.ei = "E" THEN "E" ELSE "I",
          IF mbti.sn = "S" THEN "S" ELSE "N",
          IF mbti.tf = "T" THEN "T" ELSE "F",
          IF mbti.jp = "J" THEN "J" ELSE "P">>]

\* Lines 310-313: f"Type {primary_type}w{wing} ({instinct})"
EnneagramView(enneagram) ==
    <<"Type ", DigitStr(enneagram.primary_type), "w", DigitStr(enneagram.wing),
      " (", enneagram.instinct, ")">>

analytics_page(pd, w, clicked) ==
    IF pd = {}
    THEN [pd |-> pd, screen |-> [BlankScreen EXCEPT !.warning = WARN_ANALYTICS]]
    ELSE [pd |-> pd,
          screen |-> [BlankScreen EXCEPT
             !.markdown = "analytics",
             !.bar_chart = IF "big_five" \in DictKeys(pd)
                           THEN BarChart(DictGet(pd, "big_five"))
                           ELSE <<>>,
             !.mbti_view = IF "mbti" \in DictKeys(pd)
                           THEN <<MbtiView(DictGet(pd, "mbti"))>>
                           ELSE <<>>,
             !.enneagram_view = IF "enneagram" \in DictKeys(pd)
                                THEN EnneagramView(DictGet(pd, "enneagram"))
                                ELSE <<>>]]

\* Line 50 when line 53 is missing, so that the flag never stops the
\* initialization: a faulty variant of NeedsInit.
NeedsInitAlways(ss) == TRUE

\* Line 50: not st.session_state.initialized
NeedsInit(ss) == ~ ss.initialized

\* Lines 38-63.  calls is the number of earlier calls of initialize_vector_db.
main(ss, w, clicked, calls) ==
    LET init == NeedsInit(ss)
        calls1 == IF init THEN calls + 1 ELSE calls
        ss1 == IF init
               THEN [ss EXCEPT !.vector_store = <<initialize_vector_db(calls1)>>,
                               !.initialized = TRUE]
               ELSE ss
        pd == ss1.personality_data
        r == CASE w.page = PAGES[1] -> home_page(pd, w, clicked)
               [] w.page = PAGES[2] -> assessment_page(pd, w, clicked)
               [] w.page = PAGES[3] -> chat_page(pd, w, clicked)
               [] w.page = PAGES[4] -> analytics_page(pd, w, clicked)
    IN  [session_state |-> [ss1 EXCEPT !.personality_data = r.pd],
         screen |-> r.screen,
         calls |-> calls1]

\* The widget values the front end keeps after a run: a widget the run did
\* not render is forgotten and starts from its default when it next appears.
KeptWidgets(w, rendered) ==
    [k \in DOMAIN DefaultWidgets |->
        CASE k = "wing_options" ->
                IF "wing" \in rendered THEN WingOptions(w.primary_type) ELSE <<>>
          [] k = "wing_index" ->
                IF "wing" \in rendered
                THEN WingIndex(w, WingOptions(w.primary_type))
                ELSE 1
          [] OTHER -> IF k \in rendered THEN w[k] ELSE DefaultWidgets[k]]

\* One run of the script: lines 17-20, then main().
Script(ss, w, clicked, calls) ==
    LET m == main(SessionInit(ss), w, clicked, calls)
    IN  [session_state |-> m.session_state,
         widgets |-> KeptWidgets(w, m.screen.rendered),
         screen |-> m.screen,
         calls |-> m.calls]

(***************************************************************************)
(* The state machine.                                                      *)
(***************************************************************************)
\* A browser has connected; no run has happened yet.
Init ==
    /\ session_state = [k \in {} |-> {}]
    /\ widgets = DefaultWidgets
    /\ screen = [BlankScreen EXCEPT !.rendered = {}]
    /\ init_calls = 0
    /\ submitted = <<>>
    /\ replaced = {}

KINDS == {"big_five", "mbti", "enneagram"}

\* The items of kind k in a profile.
Entries(d, k) == {e \in d : e.key = k}

\* The profile of the session: empty until the first run creates it.
Profile ==
    IF "personality_data" \in DOMAIN session_state
    THEN session_state.personality_data
    ELSE {}

\* The rerun an event starts: the script runs to its end.
Step(w, clicked) ==
    LET r == Script(session_state, w, clicked, init_calls)
    IN  /\ session_state' = r.session_state
        /\ widgets' = r.widgets
        /\ screen' = r.screen
        /\ init_calls' = r.calls
        /\ submitted' = IF clicked = "save_big_five"
                        THEN <<w.openness, w.conscientiousness, w.extraversion,
                               w.agreeableness, w.neuroticism>>
                        ELSE submitted
        /\ replaced' = {k \in KINDS :
                          /\ Entries(Profile, k) # {}
                          /\ Entries(r.session_state.personality_data, k)
                                # Entries(Profile, k)}

Started == "initialized" \in DOMAIN session_state

\* The first run of the session, every widget at its default.
Start == ~ Started /\ Step(widgets, NoClick)

\* A rerun no widget caused (the user asks for one).
Rerun == Started /\ Step(widgets, NoClick)

\* The sidebar radio.
Navigate(p) ==
    /\ "page" \in screen.rendered
    /\ p # widgets.page
    /\ Step([widgets EXCEPT !.page = p], NoClick)

\* The selectbox of the assessment page.
SelectAssessment(t) ==
    /\ "assessment_type" \in screen.rendered
    /\ t # widgets.assessment_type
    /\ Step([widgets EXCEPT !.assessment_type = t], NoClick)

SetSlider(t, v) ==
    /\ t \in screen.rendered
    /\ v # widgets[t]
    /\ Step([widgets EXCEPT ![t] = v], NoClick)

SaveBigFive ==
    /\ "save_big_five" \in screen.rendered
    /\ Step(widgets, "save_big_five")

ChooseAxis(axis, label) ==
    /\ axis \in screen.rendered
    /\ label # widgets[axis]
    /\ Step([widgets EXCEPT ![axis] = label], NoClick)

SaveMbti ==
    /\ "save_mbti" \in screen.rendered
    /\ Step(widgets, "save_mbti")

SelectPrimaryType(n) ==
    /\ "primary_type" \in screen.rendered
    /\ n # widgets.primary_type
    /\ Step([widgets EXCEPT !.primary_type = n], NoClick)

\* The user picks the i-th option of the wing selectbox as it is shown.
SelectWing(i) ==
    /\ "wing" \in screen.rendered
    /\ i \in 1..Len(widgets.wing_options)
    /\ i # widgets.wing_index
    /\ Step([widgets EXCEPT !.wing_index = i], NoClick)

SelectInstinct(x) ==
    /\ "instinct" \in screen.rendered
    /\ x # widgets.instinct
    /\ Step([widgets EXCEPT !.instinct = x], NoClick)

SaveEnneagram ==
    /\ "save_enneagram" \in screen.rendered
    /\ Step(widgets, "save_enneagram")

TypeQuestion(q) ==
    /\ "user_query" \in screen.rendered
    /\ q # widgets.user_query
    /\ Step([widgets EXCEPT !.user_query = q], NoClick)

Ask ==
    /\ "ask" \in screen.rendered
    /\ Step(widgets, "ask")

(***************************************************************************)
(* What the user enters.                                                   *)
(***************************************************************************)
\* Slider positions: the default and the top NumExtraScores ones.
ScoreValues ==
    {SliderDefault} \cup
    {v \in SliderMin..SliderMax : v > SliderMax - NumExtraScores}

\* The characters of a question: a letter and the quote of the template.
QueryChars == {"a", "'"}

\* Every question of at most MaxQueryLen characters, the empty one included.
Queries == UNION {[1..n -> QueryChars] : n \in 0..MaxQueryLen}

\* The sliders, axes, primary types and instincts used where the form is not
\* the subject: two sliders, two axes, the two ends and the middle of the types.
SomeTraits == {"openness", "neuroticism"}
SomeAxes == {"ei", "sn"}
SomeTypes == {TypeMin, 5, TypeMax}
SomeInstincts == {INSTINCTS[1], INSTINCTS[3]}

\* The whole application, the inputs of the three forms sampled.
Next ==
    \/ Start
    \/ Rerun
    \/ \E p \in Range(PAGES) : Navigate(p)
    \/ \E t \in Range(ASSESSMENT_TYPES) : SelectAssessment(t)
    \/ \E t \in SomeTraits, v \in ScoreValues : SetSlider(t, v)
    \/ SaveBigFive
    \/ \E axis \in SomeAxes :
          \E label \in Range(AxisOptions(axis)) : ChooseAxis(axis, label)
    \/ SaveMbti
    \/ \E n \in SomeTypes : SelectPrimaryType(n)
    \/ \E i \in 1..2 : SelectWing(i)
    \/ \E x \in SomeInstincts : SelectInstinct(x)
    \/ SaveEnneagram
    \/ \E q \in Queries : TypeQuestion(q)
    \/ Ask

Spec == Init /\ [][Next]_vars

\* The Big Five form with all five sliders; of the other forms, the MBTI one
\* saved as it opens.
NextBigFive ==
    \/ Start
    \/ Rerun
    \/ \E p \in Range(PAGES) : Navigate(p)
    \/ \E t \in Range(ASSESSMENT_TYPES) : SelectAssessment(t)
    \/ \E t \in Range(TRAITS), v \in ScoreValues : SetSlider(t, v)
    \/ SaveBigFive
    \/ SaveMbti

SpecBigFive == Init /\ [][NextBigFive]_vars

\* The MBTI form with its four axes; the other forms saved as they open.
NextMbti ==
    \/ Start
    \/ Rerun
    \/ \E p \in Range(PAGES) : Navigate(p)
    \/ \E t \in Range(ASSESSMENT_TYPES) : SelectAssessment(t)
    \/ SaveBigFive
    \/ \E axis \in Range(AXES) :
          \E label \in Range(AxisOptions(axis)) : ChooseAxis(axis, label)
    \/ SaveMbti
    \/ SaveEnneagram

SpecMbti == Init /\ [][NextMbti]_vars

\* The Enneagram form with every primary type, wing and instinct; the other
\* forms saved as they open.
NextEnneagram ==
    \/ Start
    \/ Rerun
    \/ \E p \in Range(PAGES) : Navigate(p)
    \/ \E t \in Range(ASSESSMENT_TYPES) : SelectAssessment(t)
    \/ SaveBigFive
    \/ SaveMbti
    \/ \E n \in TypeMin..TypeMax : SelectPrimaryType(n)
    \/ \E i \in 1..2 : SelectWing(i)
    \/ \E x \in Range(INSTINCTS) : SelectInstinct(x)
    \/ SaveEnneagram

SpecEnneagram == Init /\ [][NextEnneagram]_vars

(***************************************************************************)
(* Properties.                                                             *)
(***************************************************************************)
PageOf == widgets.page

Saved(k) == k \in DictKeys(Profile)

Stored(k) == DictGet(Profile, k)

\* What a Save of kind k with result v leaves: one item of k, holding v, and
\* the items of the other kinds as they were.
SavePost(k, v) ==
    /\ Entries(Profile', k) = {[key |-> k, value |-> v]}
    /\ \A j \in KINDS \ {k} : Entries(Profile', j) = Entries(Profile, j)

\* C1: a Save of kind K makes the profile's entry of K exactly the submitted
\* result, whatever was stored for K before, and leaves the entries of the
\* other kinds as they were; and in every state each kind has at most one
\* result.
C1_SaveReplaces ==
    /\ [][/\ SaveBigFive => SavePost("big_five", BigFiveRecord(widgets))
          /\ SaveMbti => SavePost("mbti", MbtiRecord(widgets))
          /\ SaveEnneagram => SavePost("enneagram", EnneagramRecord(widgets))]_vars
    /\ [](\A k \in KINDS : Cardinality(Entries(Profile, k)) <= 1)

\* A Save has just replaced an earlier, different Big Five result while the
\* other two kinds were stored.
C1_Witness ==
    /\ "big_five" \in replaced
    /\ screen.success = "Big Five assessment saved successfully!"
    /\ Saved("mbti")
    /\ Saved("enneagram")

C3_WingAdjacent ==
    /\ Saved("enneagram") =>
          LET e == Stored("enneagram")
          IN  /\ e.primary_type \in 1..9
              /\ e.wing \in 1..9
              /\ e.wing = e.primary_type - 1 \/ e.wing = e.primary_type + 1
    /\ "wing" \in screen.rendered =>
          /\ Len(widgets.wing_options) =
                IF widgets.primary_type \in {1, 9} THEN 1 ELSE 2
          /\ widgets.wing_index \in 1..Len(widgets.wing_options)

\* A Save has just replaced an earlier, different Enneagram result by one of
\* primary type 9.
C3_Witness ==
    /\ Saved("enneagram")
    /\ Stored("enneagram").primary_type = 9
    /\ "enneagram" \in replaced
    /\ screen.success = "Enneagram assessment saved successfully!"

\* C4: on the Chat or the Analytics page with an empty profile only the
\* warning is rendered (no input, no button, no response, no chart or other
\* projection); with a non-empty profile there is no warning, the Chat page
\* shows its text and input, and the Analytics page shows its text and a
\* projection for exactly the kinds stored.
C4_Gating ==
    /\ (Started /\ PageOf = PAGES[3] /\ Profile = {}) =>
          screen = [BlankScreen EXCEPT !.warning = WARN_CHAT]
    /\ (Started /\ PageOf = PAGES[4] /\ Profile = {}) =>
          screen = [BlankScreen EXCEPT !.warning = WARN_ANALYTICS]
    /\ (PageOf = PAGES[3] /\ Profile # {}) =>
          /\ screen.warning = ""
          /\ screen.markdown = "chat"
          /\ "user_query" \in screen.rendered
    /\ (PageOf = PAGES[4] /\ Profile # {}) =>
          /\ screen.warning = ""
          /\ screen.markdown = "analytics"
          /\ screen.bar_chart # <<>> <=> Saved("big_five")
          /\ screen.mbti_view # <<>> <=> Saved("mbti")
          /\ screen.enneagram_view # <<>> <=> Saved("enneagram")

\* The Chat page was entered with an empty profile.
C4_Witness ==
    /\ Started
    /\ PageOf = PAGES[3]
    /\ Profile = {}

\* A step that is the click of one of the three Save buttons.
IsSave == SaveBigFive \/ SaveMbti \/ SaveEnneagram

\* C5: every step other than the click of a Save button leaves the profile
\* unchanged.
C5_OnlySaveMutates == [][~ IsSave => Profile' = Profile]_vars

\* With all three kinds stored, the sliders stand away from the stored Big
\* Five result and no Save was clicked.
C5_Witness ==
    /\ KINDS \subseteq DictKeys(Profile)
    /\ "save_big_five" \in screen.rendered
    /\ screen.success = ""
    /\ BigFiveRecord(widgets) # Stored("big_five")

\* C6: after a Big Five Save with scores s1..s5 the stored record is
\* {openness: s1, conscientiousness: s2, extraversion: s3, agreeableness: s4,
\* neuroticism: s5}, whatever happened since, and the Analytics page shows the
\* bars Openness: s1, Conscientiousness: s2, Extraversion: s3,
\* Agreeableness: s4, Neuroticism: s5 in that order.
C6_BigFiveRoundTrip ==
    submitted # <<>> =>
        /\ submitted \in [1..5 -> SliderMin..SliderMax]
        /\ Saved("big_five")
        /\ Stored("big_five") =
              [openness |-> submitted[1], conscientiousness |-> submitted[2],
               extraversion |-> submitted[3], agreeableness |-> submitted[4],
               neuroticism |-> submitted[5]]
        /\ PageOf = PAGES[4] =>
              screen.bar_chart =
                 << [label |-> "Openness", value |-> submitted[1]],
                    [label |-> "Conscientiousness", value |-> submitted[2]],
                    [label |-> "Extraversion", value |-> submitted[3]],
                    [label |-> "Agreeableness", value |-> submitted[4]],
                    [label |-> "Neuroticism", value |-> submitted[5]] >>

\* Analytics is shown after a Big Five Save with unequal scores and a Save of
\* another kind.
C6_Witness ==
    /\ PageOf = PAGES[4]
    /\ submitted # <<>>
    /\ submitted[1] # submitted[2]
    /\ submitted[3] # submitted[4]
    /\ submitted[5] = SliderMax
    /\ Saved("mbti")

\* C7: a stored MBTI result has ei in {E,I}, sn in {S,N}, tf in {T,F} and
\* jp in {J,P}, and its type is the four letters ei, sn, tf, jp in that order.
C7_MbtiLetters ==
    Saved("mbti") =>
        LET m == Stored("mbti")
        IN  /\ m.ei \in {"E", "I"}
            /\ m.sn \in {"S", "N"}
            /\ m.tf \in {"T", "F"}
            /\ m.jp \in {"J", "P"}
            /\ m.type = <<m.ei, m.sn, m.tf, m.jp>>

\* q occurs in text as a run of consecutive pieces.
Contains(text, q) ==
    \E i \in 0..(Len(text) - Len(q)) :
        \A j \in 1..Len(q) : text[i + j] = q[j]

\* Profiles of other sessions: one result of each kind, and all three.
OtherProfiles ==
    LET b == [key |-> "big_five",
              value |-> BigFiveRecord([DefaultWidgets EXCEPT !.openness = SliderMin])]
        m == [key |-> "mbti",
              value |-> MbtiRecord([DefaultWidgets EXCEPT !.ei = EI_OPTIONS[2],
                                                          !.tf = TF_OPTIONS[2]])]
        e == [key |-> "enneagram",
              value |-> EnneagramRecord([DefaultWidgets EXCEPT !.primary_type = 4])]
    IN  {{b}, {m}, {e}, {b, m, e}}

\* C8: a response is shown only for a non-empty question; it contains the
\* question verbatim; and the Chat page run on the same question and click
\* with any other non-empty profile shows the same response.  With an empty
\* question there is no response.
C8_ChatEcho ==
    /\ screen.response # <<>> =>
          /\ widgets.user_query # <<>>
          /\ Contains(screen.response, widgets.user_query)
          /\ \A other \in OtherProfiles :
                chat_page(other, widgets, "ask").screen.response = screen.response
    /\ (PageOf = PAGES[3] /\ widgets.user_query = <<>>) =>
          /\ screen.response = <<>>
          /\ "ask" \notin screen.rendered

\* Ask was clicked on a question holding the template's quote, with an MBTI
\* result stored.
C8_Witness ==
    /\ screen.response # <<>>
    /\ Len(widgets.user_query) = MaxQueryLen
    /\ "'" \in Range(widgets.user_query)
    /\ Saved("mbti")

C10_KeysGrow ==
    /\ [][DictKeys(Profile) \subseteq DictKeys(Profile')]_vars
    /\ [][Profile # {} => (Profile' # {} /\ screen'.warning = "")]_vars

\* The Chat page is shown unlocked after a second kind was saved.
C10_Witness ==
    /\ PageOf = PAGES[3]
    /\ {"big_five", "enneagram"} \subseteq DictKeys(Profile)
    /\ screen.warning = ""

====
